---- MODULE Spec2Model ----
(***************************************************************************)
(* Model of the Perplexity search clients:                                 *)
(*   mcp    - mcp_perplexity_server.py   search_web (HTTP, normalizes)      *)
(*   sdk    - perplexity_search.py       search_perplexity + main (SDK)     *)
(*   simple - perplexity_search_simple.py search_perplexity + main (HTTP)   *)
(* One behaviour is one call of a search operation (by the tool runtime,   *)
(* by a library caller, or by the script's main) from entry to its end.    *)
(*                                                                         *)
(* Python str values are tuples of one-character strings (<<>> is "").     *)
(* None and a missing key / attribute are the reserved tuples None and     *)
(* Absent. Error messages are tuples of words.                             *)
(***************************************************************************)
EXTENDS Integers, Sequences, FiniteSets, TLC

\* ------------------------------------------------------------------ bounds

\* Longest upstream result list.
MaxResults == 2
\* How many fields of a response, over all its results, differ from a
\* fully populated hit.
MaxVaried == 2

\* ------------------------------------------------------------------ values

None == <<"<None>">>
Absent == <<"<absent>">>

\* Python truthiness of an optional str.
Truthy(v) == v # None /\ v # Absent /\ Len(v) > 0

\* x or y
Or(x, y) == IF Truthy(x) THEN x ELSE y

\* dict.get(key) / getattr(obj, name, None): a missing entry reads as None.
Get(v) == IF v = Absent THEN None ELSE v

\* dict.get(key, default)
GetDefault(v, default) == IF v = Absent THEN default ELSE v

Untitled == <<"U","n","t","i","t","l","e","d">>

Whitespace == {" ", "\n", "\t"}

\* Mutant of SplitCount: len(text.split(" ")).
SplitOnSpaces(t) == Cardinality({i \in 1..Len(t) : t[i] = " "}) + 1

\* len(text.split()): the number of maximal runs of non-whitespace characters.
RECURSIVE SplitCount(_)
SplitCount(t) ==
    IF Len(t) = 0 THEN 0
    ELSE LET rest == SplitCount(Tail(t))
         IN  IF Head(t) \in Whitespace THEN rest
             ELSE IF Len(t) > 1 /\ t[2] \notin Whitespace THEN rest
             ELSE rest + 1

\* "\n\n".join(parts)
RECURSIVE Join(_)
Join(parts) ==
    IF Len(parts) = 0 THEN <<>>
    ELSE IF Len(parts) = 1 THEN parts[1]
    ELSE parts[1] \o <<"\n", "\n">> \o Join(Tail(parts))

\* [str(chunk) for chunk in r.chunks if chunk]
NonEmptyItems(items) == SelectSeq(items, LAMBDA c : Len(c) > 0)

\* ------------------------------------------------------------------ inputs

Variants == {"mcp", "sdk", "simple"}

Fields == {"title", "url", "snippet", "date", "last_updated", "chunks", "chunk"}

NoChunks == [kind |-> "absent", items |-> <<>>]

\* A fully populated search hit.
Typical ==
    [title |-> <<"T">>, url |-> <<"u">>, snippet |-> <<"a", " ", "b">>,
     date |-> <<"d">>, last_updated |-> <<"l">>,
     chunks |-> NoChunks, chunk |-> Absent]

\* Excerpt texts whose length and token count differ in every way: nothing but
\* whitespace, whitespace at both ends and doubled inside, three words.
Blank == <<" ">>

Ragged == <<" ", "x", " ", " ", "y", "\n">>

HelloWorldFoo ==
    <<"h", "e", "l", "l", "o", " ", "w", "o", "r", "l", "d", " ", "f", "o", "o">>

\* The values a field of a raw result takes besides the typical one. The JSON
\* client reads only the five documented keys; the SDK client also probes the
\* chunks and chunk attributes.
Variations(v, f) ==
    CASE f \in {"title", "url"} -> {Absent}
      [] f = "snippet" -> {Absent, <<>>, Blank, Ragged, HelloWorldFoo}
      [] f \in {"date", "last_updated"} -> {Absent, <<>>}
      [] f = "chunks" ->
            IF v = "sdk"
            THEN {[kind |-> "list", items |-> <<>>],
                  [kind |-> "list", items |-> << <<>> >>],
                  [kind |-> "list", items |-> << <<"p">>, <<>>, <<"q">> >>],
                  [kind |-> "str", items |-> << <<"s">> >>]}
            ELSE {}
      [] f = "chunk" -> IF v = "sdk" THEN {<<>>, <<"c">>} ELSE {}

FieldOrder == <<"title", "url", "snippet", "date", "last_updated", "chunks", "chunk">>

\* Result list s with field FieldOrder[j] of result k set to x.
Edit(s, k, j, x) == [s EXCEPT ![k] = [s[k] EXCEPT ![FieldOrder[j]] = x]]

\* The result lists got from s by editing up to budget fields, taken in
\* order from field j of result k on.
RECURSIVE Vary(_, _, _, _, _)
Vary(v, s, k, j, budget) ==
    IF budget = 0 \/ k > Len(s) THEN {s}
    ELSE IF j > Len(FieldOrder) THEN Vary(v, s, k + 1, 1, budget)
    ELSE Vary(v, s, k, j + 1, budget)
         \cup UNION {Vary(v, Edit(s, k, j, x), k, j + 1, budget - 1) :
                        x \in Variations(v, FieldOrder[j])}

\* The result lists the upstream may answer with: up to MaxResults results,
\* up to MaxVaried of their fields other than in a fully populated hit.
RawResultLists(v) ==
    UNION {Vary(v, [k \in 1..len |-> Typical], 1, 1, MaxVaried) :
              len \in 0..MaxResults}

Statuses == {404, 500}

\* Response bodies of a non-2xx answer, as words.
Bodies == {<<"unavailable">>, <<"model", "Not", "Found">>, <<"quota", "404">>}

\* Descriptions of a connection or timeout failure, as words.
Descs == {<<"timed", "out">>, <<"host", "not", "found">>}

NoOutcome == [kind |-> "none", status |-> 0, text |-> <<>>, has_results |-> FALSE]

\* What one transport call can end in: a 2xx answer (with or without a
\* results entry), a non-2xx status, a network failure, or, over HTTP, a body
\* that is not JSON.
Outcomes(v) ==
    {[kind |-> "ok", status |-> 200, text |-> <<>>, has_results |-> h] :
        h \in BOOLEAN}
    \cup {[kind |-> "status", status |-> c, text |-> b, has_results |-> FALSE] :
        c \in Statuses, b \in Bodies}
    \cup {[kind |-> "network", status |-> 0, text |-> d, has_results |-> FALSE] :
        d \in Descs}
    \cup (IF v = "sdk" THEN {}
          ELSE {[kind |-> "bad_json", status |-> 200, text |-> <<>>,
                 has_results |-> FALSE]})

\* The values of PERPLEXITY_API_KEY in the environment and of api_key.
KeyValues == {None, <<>>, <<"k">>}

Callers(v) ==
    CASE v = "mcp" -> {"tool"}
      [] v = "sdk" -> {"main", "lib"}
      [] v = "simple" -> {"main", "lib"}

\* ------------------------------------------------------------ normalization

\* date = result.get("date") or result.get("last_updated")
ResolveDate(r) == Or(Get(r.date), Get(r.last_updated))

\* r.title / r.url of an SDK result raise AttributeError when the attribute is
\* not there; the JSON client reads both with a default.
MissingAttr(v, r) ==
    IF v # "sdk" THEN Absent
    ELSE IF r.title = Absent THEN <<"title">>
    ELSE IF r.url = Absent THEN <<"url">>
    ELSE Absent

TitleOf(v, r) == IF v = "sdk" THEN r.title ELSE GetDefault(r.title, Untitled)

UrlOf(v, r) == IF v = "sdk" THEN r.url ELSE GetDefault(r.url, <<>>)

\* hasattr(r, "chunks") and r.chunks
ChunksTruthy(c) ==
    CASE c.kind = "absent" -> FALSE
      [] c.kind = "list" -> Len(c.items) > 0
      [] c.kind = "str" -> Len(c.items[1]) > 0

\* The SDK client's probe for the excerpt text: chunks, then chunk, then
\* snippet; the first truthy attribute decides.
ChunkTextSdk(r) ==
    IF ChunksTruthy(r.chunks)
    THEN IF r.chunks.kind = "list"
         THEN Join(NonEmptyItems(r.chunks.items))
         ELSE r.chunks.items[1]
    ELSE IF Truthy(r.chunk) THEN r.chunk
    ELSE IF Truthy(r.snippet) THEN r.snippet
    ELSE None

\* chunk_text
ChunkText(v, r) == IF v = "sdk" THEN ChunkTextSdk(r) ELSE Get(r.snippet)

\* if date: source["date"] = date
SourceOf(v, r) ==
    LET date == ResolveDate(r)
    IN  IF Truthy(date)
        THEN [title |-> TitleOf(v, r), url |-> UrlOf(v, r), date |-> date]
        ELSE [title |-> TitleOf(v, r), url |-> UrlOf(v, r)]

\* Mutant of HasChunk: if chunk_text is not None.
HasChunkNotNone(chunk_text) == chunk_text # None

\* if chunk_text:
HasChunk(chunk_text) == Truthy(chunk_text)

\* chunk_data; only the JSON client copies the date into it.
ChunkOf(v, r) ==
    LET date == ResolveDate(r)
        chunk_text == ChunkText(v, r)
        base == [title |-> TitleOf(v, r), url |-> UrlOf(v, r),
                 source |-> UrlOf(v, r), chunk |-> chunk_text,
                 chunk_length |-> Len(chunk_text),
                 chunk_tokens |-> SplitCount(chunk_text)]
    IN  IF v # "sdk" /\ Truthy(date) THEN ("date" :> date) @@ base ELSE base

\* result_item
ResultItemOf(v, r) ==
    LET date == ResolveDate(r)
        chunk_text == ChunkText(v, r)
    IN  IF HasChunk(chunk_text)
        THEN [title |-> TitleOf(v, r), url |-> UrlOf(v, r),
              chunk |-> chunk_text, date |-> date,
              chunk_length |-> Len(chunk_text),
              chunk_tokens |-> SplitCount(chunk_text)]
        ELSE [title |-> TitleOf(v, r), url |-> UrlOf(v, r),
              chunk |-> chunk_text, date |-> date]

\* Mutant of Push: list.insert(0, x).
PushFront(list, x) == <<x>> \o list

\* list.append(x)
Push(list, x) == Append(list, x)

\* len(list)
Count(list) == Len(list)

\* _inspection_info: the public attributes of the first SDK result, or None.
InspectionInfo(raw) ==
    IF Len(raw) > 0
    THEN << {f \in Fields : IF f = "chunks" THEN raw[1].chunks.kind # "absent"
                            ELSE raw[1][f] # Absent} >>
    ELSE <<>>

\* Mutant of Bundle: both counts are the number of results the upstream sent.
BundleUpstreamCounts(v, q, src, chk, res, raw) ==
    IF v = "sdk"
    THEN ("sources" :> src) @@ ("chunks" :> chk) @@ ("results" :> res)
         @@ ("query" :> q) @@ ("_inspection_info" :> InspectionInfo(raw))
    ELSE [query |-> q, sources |-> src, chunks |-> chk, results |-> res,
          total_sources |-> Len(raw), total_chunks |-> Len(raw)]

\* The value the search operation returns.
Bundle(v, q, src, chk, res, raw) ==
    IF v = "sdk"
    THEN ("sources" :> src) @@ ("chunks" :> chk) @@ ("results" :> res)
         @@ ("query" :> q) @@ ("_inspection_info" :> InspectionInfo(raw))
    ELSE [query |-> q, sources |-> src, chunks |-> chk, results |-> res,
          total_sources |-> Count(src), total_chunks |-> Count(chk)]

\* ------------------------------------------------------------------ errors

NoErr == [type |-> "none", msg |-> <<>>]

\* raise ValueError(...) for a missing credential.
KeyError(v) ==
    [type |-> "ValueError",
     msg |-> IF v = "sdk" THEN <<"Perplexity API key is required.">>
             ELSE <<"PERPLEXITY_API_KEY environment variable is not set.">>]

\* The "search capability not enabled" message of each client.
NotEnabledMsg(v) ==
    CASE v = "mcp" -> <<"Search API is not enabled for your API key or account.">>
      [] v = "sdk" -> <<"Search API is not enabled for your API key or account.">>
      [] v = "simple" -> <<"Search API is not enabled for your API key.">>

NetworkPrefix(v) ==
    IF v = "simple" THEN "Network error:"
    ELSE "Network error calling Perplexity API:"

\* The except clauses of the HTTP clients.
HttpExcept(v, o) ==
    CASE o.kind = "status" ->
            IF o.status = 404
            THEN [type |-> "Exception", msg |-> NotEnabledMsg(v)]
            ELSE [type |-> "Exception",
                  msg |-> <<"Perplexity API error:", ToString(o.status), "-">>
                          \o o.text]
      [] o.kind = "network" ->
            [type |-> "Exception", msg |-> <<NetworkPrefix(v)>> \o o.text]
      [] o.kind = "bad_json" ->
            [type |-> "JSONDecodeError", msg |-> <<"Expecting value">>]

\* str.lower(), word by word.
Lower(w) ==
    CASE w = "Not" -> "not"
      [] w = "Found" -> "found"
      [] OTHER -> w

\* "404" in error_msg
Has404(error_msg) == \E k \in 1..Len(error_msg) : error_msg[k] = "404"

\* "not found" in error_msg.lower()
HasNotFound(error_msg) ==
    \E k \in 1..(Len(error_msg) - 1) :
        Lower(error_msg[k]) = "not" /\ Lower(error_msg[k + 1]) = "found"

\* str(e) of what the SDK call raises: the status code and the body of a
\* non-2xx answer, the description of a network failure.
SdkStr(o) ==
    IF o.kind = "status"
    THEN <<"Error code:", ToString(o.status), "-">> \o o.text
    ELSE o.text

\* The SDK client's except Exception clause, which covers the call and the
\* normalization loop alike.
SdkExcept(error_msg) ==
    IF Has404(error_msg) \/ HasNotFound(error_msg)
    THEN [type |-> "Exception", msg |-> NotEnabledMsg("sdk")]
    ELSE [type |-> "Exception",
          msg |-> <<"Error calling Perplexity Search API:">> \o error_msg]

\* Mutant of KeyMissing: if api_key is None.
KeyIsNone(k) == k = None

\* if not api_key:
KeyMissing(k) == ~Truthy(k)

\* Mutant of LoopDone: the return statement sits inside the loop body.
LoopDoneAfterFirst(n, raw) == n = Len(raw) \/ n = 1

\* The loop over the results has run out.
LoopDone(n, raw) == n = Len(raw)

\* ----------------------------------------------------------------- request

\* The defaults of max_results and max_tokens_per_page.
DefaultMaxResults == 10

DefaultMaxTokensPerPage == 2048

\* An optional int argument is <<>> (left out, or None) or <<i>>.
IntArg(given, default) == IF given = <<>> THEN default ELSE given[1]

NoFilter == [kind |-> "none", items |-> <<>>]

\* The arguments a caller passes besides query and api_key. A tool or library
\* caller passes any; the SDK script's main passes max_results=10,
\* max_tokens=25000 and max_tokens_per_page=2048; the simple script's main
\* passes max_results alone, 10 or the number on its command line.
CallArgs(v, c) ==
    IF c = "main" /\ v = "sdk"
    THEN {[max_results |-> <<10>>, max_tokens |-> <<25000>>,
           max_tokens_per_page |-> <<2048>>,
           search_domain_filter |-> NoFilter, search_recency_filter |-> None]}
    ELSE IF c = "main"
    THEN {[max_results |-> <<m>>, max_tokens |-> <<>>,
           max_tokens_per_page |-> <<>>,
           search_domain_filter |-> NoFilter, search_recency_filter |-> None] :
            m \in {10, 5}}
    ELSE [max_results : {<<>>, <<5>>},
          max_tokens : {<<>>, <<0>>, <<25000>>},
          max_tokens_per_page : {<<>>, <<1024>>},
          search_domain_filter :
              {NoFilter, [kind |-> "list", items |-> <<>>],
               [kind |-> "list", items |-> << <<"a", ".", "c">> >>]},
          search_recency_filter : {None, <<>>, <<"d", "a", "y">>}]

\* Mutant of MaxTokensGiven: if max_tokens.
MaxTokensTruthy(max_tokens) == max_tokens # <<>> /\ max_tokens[1] # 0

\* if max_tokens is not None:
MaxTokensGiven(max_tokens) == max_tokens # <<>>

\* if search_domain_filter:
FilterGiven(filter) == filter.kind = "list" /\ Len(filter.items) > 0

\* payload / search_params: the three keys always there, then each optional
\* key under its test.
Payload(q, a) ==
    LET base == [query |-> q,
                 max_results |-> IntArg(a.max_results, DefaultMaxResults),
                 max_tokens_per_page |->
                     IntArg(a.max_tokens_per_page, DefaultMaxTokensPerPage)]
        with_tokens ==
            IF MaxTokensGiven(a.max_tokens)
            THEN ("max_tokens" :> a.max_tokens[1]) @@ base ELSE base
        with_domains ==
            IF FilterGiven(a.search_domain_filter)
            THEN ("search_domain_filter" :> a.search_domain_filter.items)
                 @@ with_tokens
            ELSE with_tokens
    IN  IF Truthy(a.search_recency_filter)
        THEN ("search_recency_filter" :> a.search_recency_filter) @@ with_domains
        ELSE with_domains

\* No request is being prepared: before the payload is built, and again once
\* the transport call has taken it (args and payload are not read after it).
NoRequest == [args |-> <<>>, payload |-> <<>>]

\* ------------------------------------------------------------------- state

VARIABLES
    variant,        \* which client runs
    caller,         \* "tool" (the MCP runtime), "main" (the script) or "lib"
    query,          \* the query argument
    pc,             \* "start", "keyed", "ready", "sent", "loop", "returned",
                    \* "raised", "exited"
    api_key,        \* the credential after its lookup, Absent before it
    request,        \* the call's arguments and the payload built from them
    calls,          \* transport calls made (HTTP POST / client.search.create)
    outcome,        \* what the transport call ended in
    raw_results,    \* the upstream result list being normalized
    n,              \* results normalized so far
    sources, chunks, results,
    ret,            \* the value returned to the caller, <<>> before that
    err,            \* the exception raised to the caller
    printed,        \* the error text main printed
    exit_status     \* the script's exit status, -1 while it runs

vars == <<variant, caller, query, pc, api_key, request, calls, outcome,
          raw_results, n, sources, chunks, results, ret, err, printed,
          exit_status>>

Queries == {<<"q">>}

Init ==
    /\ variant \in Variants
    /\ caller \in Callers(variant)
    /\ query \in Queries
    /\ pc = "start"
    /\ api_key = Absent
    /\ request = NoRequest
    /\ calls = 0
    /\ outcome = NoOutcome
    /\ raw_results = <<>>
    /\ n = 0
    /\ sources = <<>>
    /\ chunks = <<>>
    /\ results = <<>>
    /\ ret = <<>>
    /\ err = NoErr
    /\ printed = <<>>
    /\ exit_status = -1

\* ----------------------------------------------------------------- actions

\* perplexity_search_simple.py main: no query on the command line.
MainUsage ==
    /\ variant = "simple" /\ caller = "main" /\ pc = "start"
    /\ printed' = <<"Usage:">>
    /\ exit_status' = 1
    /\ pc' = "exited"
    /\ UNCHANGED request
    /\ UNCHANGED <<variant, caller, query, api_key, calls, outcome, raw_results,
                   n, sources, chunks, results, ret, err>>

\* perplexity_search.py main: the key is not in the environment; main prints
\* and returns without calling search_perplexity.
MainNoKey ==
    /\ variant = "sdk" /\ caller = "main" /\ pc = "start"
    /\ \E env \in KeyValues :
        /\ ~Truthy(env)
        /\ api_key' = env
    /\ printed' = <<"Error:", "PERPLEXITY_API_KEY not set">>
    /\ exit_status' = 0
    /\ pc' = "exited"
    /\ UNCHANGED request
    /\ UNCHANGED <<variant, caller, query, calls, outcome, raw_results, n,
                   sources, chunks, results, ret, err>>

\* The api_key argument a caller can pass: only the SDK client has one, and
\* its main passes the (truthy) key it read from the environment.
KeyArgs(env) ==
    IF variant # "sdk" THEN {None}
    ELSE IF caller = "main" THEN {k \in {env} : Truthy(k)}
    ELSE KeyValues

\* Entry of the search operation: the credential lookup and its check.
CheckKey ==
    /\ pc = "start"
    /\ \E env \in KeyValues : \E arg \in KeyArgs(env) :
        LET k == IF arg = None THEN env ELSE arg
        IN  /\ api_key' = k
            /\ IF KeyMissing(k)
               THEN pc' = "raised" /\ err' = KeyError(variant)
               ELSE pc' = "keyed" /\ err' = err
    /\ UNCHANGED request
    /\ UNCHANGED <<variant, caller, query, calls, outcome, raw_results, n,
                   sources, chunks, results, ret, printed, exit_status>>

\* if not PERPLEXITY_SDK_AVAILABLE: the import of the SDK failed.
SdkUnavailable ==
    /\ variant = "sdk" /\ pc = "keyed"
    /\ pc' = "raised"
    /\ err' = [type |-> "Exception", msg |-> <<"Perplexity SDK not available.">>]
    /\ UNCHANGED request
    /\ UNCHANGED <<variant, caller, query, api_key, calls, outcome, raw_results,
                   n, sources, chunks, results, ret, printed, exit_status>>

\* The payload is built from the arguments: payload of the HTTP clients,
\* search_params of the SDK client (which builds it once the SDK is there).
BuildRequest ==
    /\ pc = "keyed"
    /\ \E a \in CallArgs(variant, caller) :
        request' = [args |-> a, payload |-> Payload(query, a)]
    /\ pc' = "ready"
    /\ UNCHANGED <<variant, caller, query, api_key, calls, outcome, raw_results,
                   n, sources, chunks, results, ret, err, printed, exit_status>>

\* response.json() of the simple client, returned as it is.
RawData(o, list) ==
    IF o.has_results THEN ("id" :> <<"r">>) @@ ("results" :> list)
    ELSE ("id" :> <<"r">>)

\* The result lists an outcome can carry: only a 2xx answer with a results
\* entry carries any.
ResultLists(v, o) ==
    IF o.kind = "ok" /\ o.has_results THEN RawResultLists(v) ELSE {<<>>}

\* The transport call is made with the payload: client.post(json=payload), or
\* client.search.create(**search_params).
Send ==
    /\ pc = "ready"
    /\ calls' = calls + 1
    /\ request' = NoRequest
    /\ pc' = "sent"
    /\ UNCHANGED <<variant, caller, query, api_key, outcome, raw_results, n,
                   sources, chunks, results, ret, err, printed, exit_status>>

\* The outcome of the transport call and what the client makes of it: the
\* HTTP POST with raise_for_status() and json(), or client.search.create().
Post ==
    /\ pc = "sent"
    /\ \E o \in Outcomes(variant) : \E list \in ResultLists(variant, o) :
        /\ outcome' = o
        /\ raw_results' = list
        /\ IF o.kind # "ok"
           THEN /\ pc' = "raised"
                /\ err' = IF variant = "sdk" THEN SdkExcept(SdkStr(o))
                          ELSE HttpExcept(variant, o)
                /\ ret' = ret
           ELSE IF variant = "simple"
           THEN pc' = "returned" /\ ret' = RawData(o, list) /\ err' = err
           ELSE IF variant = "sdk" /\ ~o.has_results
           THEN /\ pc' = "raised"
                /\ err' = SdkExcept(<<"'NoneType'", "object", "is", "not",
                                      "iterable">>)
                /\ ret' = ret
           ELSE pc' = "loop" /\ ret' = ret /\ err' = err
    /\ UNCHANGED <<variant, caller, query, api_key, request, calls, n, sources,
                   chunks, results, printed, exit_status>>

\* One pass of the loop over the results.
Normalize ==
    /\ pc = "loop"
    /\ ~LoopDone(n, raw_results)
    /\ LET r == raw_results[n + 1]
           attr == MissingAttr(variant, r)
       IN  IF attr # Absent
           THEN /\ pc' = "raised"
                /\ err' = SdkExcept(<<"'Result'", "object", "has", "no",
                                      "attribute", attr[1]>>)
                /\ UNCHANGED <<n, sources, chunks, results>>
           ELSE /\ sources' = Push(sources, SourceOf(variant, r))
                /\ chunks' = IF HasChunk(ChunkText(variant, r))
                             THEN Push(chunks, ChunkOf(variant, r))
                             ELSE chunks
                /\ results' = Push(results, ResultItemOf(variant, r))
                /\ n' = n + 1
                /\ UNCHANGED <<pc, err>>
    /\ UNCHANGED request
    /\ UNCHANGED <<variant, caller, query, api_key, calls, outcome, raw_results,
                   ret, printed, exit_status>>

\* The return statement after the loop.
Return ==
    /\ pc = "loop"
    /\ LoopDone(n, raw_results)
    /\ ret' = Bundle(variant, query, sources, chunks, results, raw_results)
    /\ pc' = "returned"
    /\ UNCHANGED request
    /\ UNCHANGED <<variant, caller, query, api_key, calls, outcome, raw_results,
                   n, sources, chunks, results, err, printed, exit_status>>

\* The exit status main ends with after the search call returned or raised:
\* the simple script calls sys.exit(1) in its except clause, the SDK script
\* prints in its except clauses and falls off the end of main.
ExitStatus(v, failed) == IF v = "simple" /\ failed THEN 1 ELSE 0

\* main after the search call: print the result, or the error.
MainFinish ==
    /\ caller = "main"
    /\ pc \in {"returned", "raised"}
    /\ printed' = IF pc = "raised" THEN <<"Error:">> \o err.msg ELSE printed
    /\ exit_status' = ExitStatus(variant, pc = "raised")
    /\ pc' = "exited"
    /\ UNCHANGED request
    /\ UNCHANGED <<variant, caller, query, api_key, calls, outcome, raw_results,
                   n, sources, chunks, results, ret, err>>

Next ==
    \/ MainUsage
    \/ MainNoKey
    \/ CheckKey
    \/ SdkUnavailable
    \/ BuildRequest
    \/ Send
    \/ Post
    \/ Normalize
    \/ Return
    \/ MainFinish

Spec == Init /\ [][Next]_vars

\* ------------------------------------------------------------------ claims

\* The clients that normalize the upstream results into a bundle.
Normalizing == {"mcp", "sdk"}

\* The search operation has just returned its bundle.
ReturnedBundle == variant \in Normalizing /\ pc = "returned"

\* C1: a returned bundle has as many sources and results as the upstream sent
\* raw results (the empty list included), and sources[k] and results[k] are
\* the Source and ResultItem of raw_results[k]: same order, nothing sorted,
\* merged, dropped or added.
C1_OneToOne ==
    ReturnedBundle =>
        /\ Len(ret.sources) = Len(raw_results)
        /\ Len(ret.results) = Len(raw_results)
        /\ \A k \in 1..Len(raw_results) :
            /\ ret.sources[k] = SourceOf(variant, raw_results[k])
            /\ ret.results[k] = ResultItemOf(variant, raw_results[k])

\* C1 witness: a bundle returned for two different raw results.
C1_Witness ==
    /\ ReturnedBundle
    /\ Len(raw_results) = 2
    /\ raw_results[1] # raw_results[2]
    /\ Len(ret.sources) = 2

\* The positions of the raw results whose excerpt text is truthy.
WithExcerpt == {k \in 1..Len(raw_results) : Truthy(ChunkText(variant, raw_results[k]))}

\* The place in chunks of the chunk of raw result k.
ChunkPlace(k) == Cardinality({j \in WithExcerpt : j <= k})

\* C2: the chunks of a returned bundle are exactly the raw results with truthy
\* excerpt text, in their order: one chunk per such result, none for a result
\* whose excerpt text is empty or absent, so never more chunks than results.
C2_ChunkIffExcerpt ==
    ReturnedBundle =>
        /\ Len(ret.chunks) = Cardinality(WithExcerpt)
        /\ Len(ret.chunks) <= Len(raw_results)
        /\ \A k \in WithExcerpt :
            ret.chunks[ChunkPlace(k)] = ChunkOf(variant, raw_results[k])

\* C2 witness: a bundle whose first raw result has no excerpt text (an empty
\* one) and whose second has one, so that chunks holds only the second.
C2_Witness ==
    /\ ReturnedBundle
    /\ Len(raw_results) = 2
    /\ WithExcerpt = {2}
    /\ raw_results[1].snippet = <<>>
    /\ Len(ret.chunks) = 1

\* The keys of the two counts.
CountKeys == {"total_sources", "total_chunks"}

\* The counts of a returned bundle are the lengths of its own lists.
CountsDerived ==
    /\ CountKeys \subseteq DOMAIN ret
    /\ ret.total_sources = Len(ret.sources)
    /\ ret.total_chunks = Len(ret.chunks)

C4_NoCallWithoutKey ==
    api_key \in {None, <<>>} =>
        /\ calls = 0
        /\ outcome = NoOutcome
        /\ pc \in {"raised", "exited"}
        /\ \/ err = KeyError(variant)
           \/ variant = "sdk" /\ caller = "main" /\ pc = "exited" /\ err = NoErr

\* C4 witness: the SDK client called with an empty api_key argument has raised
\* the configuration error, and no transport call was made.
C4_Witness ==
    /\ variant = "sdk"
    /\ caller = "lib"
    /\ pc = "raised"
    /\ api_key = <<>>
    /\ err.type = "ValueError"
    /\ calls = 0

\* The transport call failed and the operation raised.
TransportFailed == pc = "raised" /\ outcome.kind \in {"status", "network"}

\* The last Len(t) words of message m are t.
EndsWith(m, t) ==
    Len(m) >= Len(t) /\ SubSeq(m, Len(m) - Len(t) + 1, Len(m)) = t

\* Message m holds word w.
HasWord(m, w) == \E k \in 1..Len(m) : m[k] = w

\* C5: the transport outcome decides the error: HTTP 404 gives the "not
\* enabled" error; any other non-2xx status an error with the status code and
\* the response body; a network failure an error with the failure's
\* description; and neither of the last two is reported as "not enabled".
C5_ErrorKinds ==
    (variant \in {"mcp", "sdk"} /\ TransportFailed) =>
        IF outcome.kind = "status" /\ outcome.status = 404
        THEN err.msg = NotEnabledMsg(variant)
        ELSE /\ err.msg # NotEnabledMsg(variant)
             /\ EndsWith(err.msg, outcome.text)
             /\ outcome.kind = "status" => HasWord(err.msg, ToString(outcome.status))

\* The keys of a full bundle as the specification lists them.
FullKeys == {"query", "sources", "chunks", "results"} \cup CountKeys

\* The keys of the bundle each client returns.
KeysOf(v) ==
    IF v = "sdk"
    THEN {"query", "sources", "chunks", "results", "_inspection_info"}
    ELSE FullKeys

\* A call ends in the whole bundle or in an error, never in between:
\* it returns only after a 2xx answer got with a credential, its bundle has the
\* keys of K(variant) and covers every raw result, and a call that raised
\* returns nothing.
AllOrNothing(K(_)) ==
    /\ (variant \in Normalizing /\ pc = "returned") =>
        /\ err = NoErr
        /\ Truthy(api_key)
        /\ outcome.kind = "ok"
        /\ K(variant) \subseteq DOMAIN ret
        /\ ret.query = query
        /\ Len(ret.sources) = Len(raw_results)
        /\ Len(ret.results) = Len(raw_results)
        /\ Len(ret.chunks) = Cardinality(WithExcerpt)
    /\ (variant \in Normalizing /\ pc = "raised") =>
        /\ err # NoErr
        /\ ret = <<>>
    /\ (variant \in Normalizing /\ outcome.kind \in {"status", "network", "bad_json"}) =>
        pc \in {"raised", "exited"} /\ err # NoErr

GotResults == variant \in Normalizing /\ outcome.kind = "ok" /\ outcome.has_results

\* C7: normalization raises nothing: whatever optional fields (title, url,
\* snippet, date, last_updated) the raw results lack, a call that got a result
\* list raises no error.
C7_NeverRaises == GotResults => (pc # "raised" /\ err = NoErr)

\* The date the specification resolves for raw result r: date if truthy, else
\* last_updated if truthy, else none.
SpecDate(r) ==
    IF Truthy(r.date) THEN r.date
    ELSE IF Truthy(r.last_updated) THEN r.last_updated
    ELSE None

\* C8: in a returned bundle, for every raw result, the Source has a date key
\* exactly when a date resolves (date if truthy, else last_updated if truthy)
\* and then holds it, and the ResultItem always has a date key, holding the
\* resolved date, or null when there is none.
C8_DateResolution ==
    ReturnedBundle =>
        \A k \in 1..Len(raw_results) :
            LET date == SpecDate(raw_results[k])
            IN  /\ ("date" \in DOMAIN ret.sources[k]) <=> (date # None)
                /\ date # None => ret.sources[k].date = date
                /\ "date" \in DOMAIN ret.results[k]
                /\ ret.results[k].date = date

\* The title and url the specification resolves for raw result r.
SpecTitle(r) == IF r.title = Absent THEN Untitled ELSE r.title

SpecUrl(r) == IF r.url = Absent THEN <<>> ELSE r.url

\* Record x holds the resolved title and url of raw result r.
TitleUrlOf(x, r) == x.title = SpecTitle(r) /\ x.url = SpecUrl(r)

\* C9: every raw result of a result list gets its Source, ResultItem and (if
\* it has excerpt text) Chunk, each with the raw title, or "Untitled" when the
\* title is absent, and the raw url, or "" when the url is absent.
C9_TitleUrlDefaults ==
    /\ (GotResults /\ pc \in {"loop", "returned"}) =>
        \A k \in 1..n :
            /\ TitleUrlOf(sources[k], raw_results[k])
            /\ TitleUrlOf(results[k], raw_results[k])
            /\ k \in WithExcerpt => TitleUrlOf(chunks[ChunkPlace(k)], raw_results[k])
    /\ (GotResults /\ pc \in {"returned", "raised"}) =>
        (pc = "returned" /\ n = Len(raw_results))

\* C10: a run of a script's main in which the search call failed ends with
\* the error printed and a non-zero exit status.
C10_NonZeroExit ==
    (caller = "main" /\ pc = "exited" /\ err # NoErr) =>
        (printed # <<>> /\ exit_status # 0)

\* The keys every request has.
RequiredKeys == {"query", "max_results", "max_tokens_per_page"}

\* The optional keys the caller's arguments call for: max_tokens when it was
\* specified (0 included), search_domain_filter when a non-empty list was
\* passed, search_recency_filter when it was set to a value (an empty string
\* sets none).
OptionalKeys(a) ==
    (IF a.max_tokens = <<>> THEN {} ELSE {"max_tokens"})
    \cup (IF a.search_domain_filter.kind = "list"
             /\ a.search_domain_filter.items # <<>>
          THEN {"search_domain_filter"} ELSE {})
    \cup (IF a.search_recency_filter \in {None, <<>>}
          THEN {} ELSE {"search_recency_filter"})

\* C11: the request body handed to the transport has query, max_results and
\* max_tokens_per_page with the caller's values (10 and 2048 when left out),
\* max_tokens exactly when the caller specified it, search_domain_filter exactly
\* when the caller passed a non-empty list, search_recency_filter exactly when
\* the caller set it, each with the caller's value, and no other key.
C11_RequestBody ==
    pc = "ready" =>
        LET a == request.args
            p == request.payload
        IN  /\ DOMAIN p = RequiredKeys \cup OptionalKeys(a)
            /\ p.query = query
            /\ p.max_results = (IF a.max_results = <<>> THEN 10
                                ELSE a.max_results[1])
            /\ p.max_tokens_per_page = (IF a.max_tokens_per_page = <<>> THEN 2048
                                        ELSE a.max_tokens_per_page[1])
            /\ "max_tokens" \in DOMAIN p => p.max_tokens = a.max_tokens[1]
            /\ "search_domain_filter" \in DOMAIN p =>
                p.search_domain_filter = a.search_domain_filter.items
            /\ "search_recency_filter" \in DOMAIN p =>
                p.search_recency_filter = a.search_recency_filter

\* A request with every optional key, max_tokens being 0, and the defaults of
\* max_results and max_tokens_per_page.
C11_Witness ==
    /\ pc = "ready"
    /\ DOMAIN request.payload = RequiredKeys \cup
           {"max_tokens", "search_domain_filter", "search_recency_filter"}
    /\ request.args.max_tokens = <<0>>
    /\ request.args.max_results = <<>>
    /\ request.payload.max_results = 10

\* A request of three keys only, although the caller passed an empty domain
\* list and an empty recency filter.
C11_WitnessOmitted ==
    /\ pc = "ready"
    /\ DOMAIN request.payload = RequiredKeys
    /\ request.args.search_domain_filter.kind = "list"
    /\ request.args.search_recency_filter = <<>>

\* The keys a ResultItem has besides title, url, chunk and date when its raw
\* result has excerpt text.
MeasureKeys == {"chunk_length", "chunk_tokens"}

\* The chunk the specification gives the ResultItem of raw result r: the
\* excerpt text if truthy, else none.
SpecChunk(v, r) ==
    IF Truthy(ChunkText(v, r)) THEN ChunkText(v, r) ELSE None

\* C12: a returned bundle has a ResultItem for every raw result, with or
\* without excerpt text; its chunk is the excerpt text when that is truthy and
\* none when the raw excerpt is empty or absent; it has chunk_length and
\* chunk_tokens exactly when the excerpt text is truthy, which is exactly when
\* the raw result has a Chunk in chunks.
C12_ResultItemChunk ==
    ReturnedBundle =>
        /\ Len(ret.results) = Len(raw_results)
        /\ Len(ret.chunks) = Cardinality(WithExcerpt)
        /\ \A k \in 1..Len(raw_results) :
            /\ ret.results[k].chunk = SpecChunk(variant, raw_results[k])
            /\ IF k \in WithExcerpt
               THEN MeasureKeys \subseteq DOMAIN ret.results[k]
               ELSE MeasureKeys \cap DOMAIN ret.results[k] = {}

\* The number of whitespace-delimited tokens of text t: the places where a
\* token starts.
TokenStarts(t) ==
    Cardinality({i \in 1..Len(t) :
                    t[i] \notin Whitespace /\ (i = 1 \/ t[i - 1] \in Whitespace)})

\* C13: for every raw result with non-empty excerpt text, its Chunk in a
\* returned bundle holds the excerpt text unchanged, chunk_length is the number
\* of its characters and chunk_tokens the number of its whitespace-delimited
\* tokens (15 and 3 for "hello world foo"), source is the url, and the
\* ResultItem of the raw result has the same chunk_length and chunk_tokens.
C13_ChunkMeasures ==
    ReturnedBundle =>
        \A k \in WithExcerpt :
            LET t == ChunkText(variant, raw_results[k])
                c == ret.chunks[ChunkPlace(k)]
            IN  /\ c.chunk = t
                /\ c.chunk_length = Len(t)
                /\ c.chunk_tokens = TokenStarts(t)
                /\ t = HelloWorldFoo => (c.chunk_length = 15 /\ c.chunk_tokens = 3)
                /\ c.source = c.url
                /\ c.url = ret.results[k].url
                /\ ret.results[k].chunk_length = c.chunk_length
                /\ ret.results[k].chunk_tokens = c.chunk_tokens

\* A bundle with the chunk of "hello world foo", 15 characters and 3 tokens,
\* after the chunk of a text with whitespace at its ends and doubled inside,
\* 6 characters and 2 tokens.
C13_Witness ==
    /\ ReturnedBundle
    /\ Len(ret.chunks) = 2
    /\ ret.chunks[1].chunk = Ragged
    /\ ret.chunks[1].chunk_length = 6
    /\ ret.chunks[1].chunk_tokens = 2
    /\ ret.chunks[2].chunk = HelloWorldFoo
    /\ ret.chunks[2].chunk_length = 15
    /\ ret.chunks[2].chunk_tokens = 3
    /\ ret.results[2].chunk_tokens = 3

====
